---- MODULE Spec2Model ----
(***************************************************************************)
(* NotebookVariableDataSource                                              *)
(* (src/vs/workbench/contrib/notebook/browser/contrib/notebookVariables/   *)
(*  notebookVariablesDataSource.ts): the lazy, paged, cancellable data     *)
(* source behind the notebook variables tree.                              *)
(*                                                                         *)
(* A getChildren call is an async function.  Its suspension points are the *)
(* awaits on the provider's sequences, so one action of the model runs one *)
(* call from a suspension point to the next.  Strings are sequences of     *)
(* one-character strings, so that template literals and concatenation are  *)
(* computed, not assumed.                                                  *)
(***************************************************************************)
EXTENDS Integers, Sequences, FiniteSets, TLC

\* ------------------------------------------------------------------ bounds

\* the page size, scaled down from the value notebookKernelService exports
variablePageSize == 2
\* the largest indexedChildrenCount a provider result carries
MaxCount == 5
\* the longest sequence a provider yields for a named query
MaxNamed == 1
\* how many times the host calls cancel()
MaxCancels == 2

\* the getChildren calls the host may have running at the same time
Calls == {"a", "b"}
\* the call of a host that expands one element at a time
Sequential == {"a"}
\* the provider handles (VariablesResult.id) in play
Handles == {1, 10}
\* what getMatchingKernel(notebook).selected may be: undefined, a kernel
\* without a variable provider, or one of two kernels with one
Kernels == {"none", "plain", "k1", "k2"}

VARIABLES
    cancellationTokenSource, \* index in sources of the source the field holds
    sources,                 \* every CancellationTokenSource created so far
    cancelCount,             \* how many cancel() calls have returned
    selected,                \* the kernel selected for the notebook
    calls,                   \* per call: the async function's frame
    walk                     \* the host's walk through one paged collection

vars == <<cancellationTokenSource, sources, cancelCount, selected, calls, walk>>

\* ----------------------------------------------------------------- strings

Digit(d) == <<"0", "1", "2", "3", "4", "5", "6", "7", "8", "9">>[d + 1]

RECURSIVE ToStr(_)
\* `${n}` of a non-negative integer
ToStr(n) == IF n < 10 THEN <<Digit(n)>> ELSE ToStr(n \div 10) \o <<Digit(n % 10)>>

\* ------------------------------------------------------------------- data

Undefined == -1

Root == [kind |-> "root"]
NoElement == [kind |-> "none"]

VariablesResults ==
    [id : Handles, name : {<<"x">>}, value : {<<"v">>},
     indexedChildrenCount : 0 .. MaxCount, hasNamedChildren : BOOLEAN]

createVariableElement(variable) ==
    [kind |-> "variable",
     id |-> ToStr(variable.id),
     extHostId |-> variable.id,
     name |-> variable.name,
     value |-> variable.value,
     indexedChildrenCount |-> variable.indexedChildrenCount,
     indexStart |-> Undefined,
     hasNamedChildren |-> variable.hasNamedChildren]

RECURSIVE MapCreate(_)
\* variables.map(variable => this.createVariableElement(variable, notebook))
MapCreate(variables) ==
    IF variables = <<>> THEN <<>>
    ELSE <<createVariableElement(Head(variables))>> \o MapCreate(Tail(variables))

\* line 95 left out: the range node does not say where it starts
RangeElement_noIndexStart(parent, start, end) ==
    [kind |-> "variable",
     id |-> parent.id \o ToStr(start),
     extHostId |-> parent.extHostId,
     name |-> <<"[">> \o ToStr(start) \o <<".", ".">> \o ToStr(end - 1) \o <<"]">>,
     value |-> <<>>,
     indexedChildrenCount |-> end - start,
     indexStart |-> Undefined,
     hasNamedChildren |-> FALSE]

\* the parent's count and hasNamedChildren copied into the range node
RangeElement_parentCounts(parent, start, end) ==
    [kind |-> "variable",
     id |-> parent.id \o ToStr(start),
     extHostId |-> parent.extHostId,
     name |-> <<"[">> \o ToStr(start) \o <<".", ".">> \o ToStr(end - 1) \o <<"]">>,
     value |-> <<>>,
     indexedChildrenCount |-> parent.indexedChildrenCount,
     indexStart |-> start,
     hasNamedChildren |-> parent.hasNamedChildren]

RangeElement(parent, start, end) ==
    [kind |-> "variable",
     id |-> parent.id \o ToStr(start),
     extHostId |-> parent.extHostId,
     name |-> <<"[">> \o ToStr(start) \o <<".", ".">> \o ToStr(end - 1) \o <<"]">>,
     value |-> <<>>,
     indexedChildrenCount |-> end - start,
     indexStart |-> start,
     hasNamedChildren |-> FALSE]

\* lines 83-85 left out: the last block is not cut to the collection's end
RangeEnd_noClamp(parent, start) == start + variablePageSize

RangeEnd(parent, start) ==
    IF start + variablePageSize > parent.indexedChildrenCount
    THEN parent.indexedChildrenCount
    ELSE start + variablePageSize

RECURSIVE RangeLoop(_, _)
\* the for loop of getIndexedChildren, from `start` on
RangeLoop(parent, start) ==
    IF start < parent.indexedChildrenCount
    THEN <<RangeElement(parent, start, RangeEnd(parent, start))>>
             \o RangeLoop(parent, start + variablePageSize)
    ELSE <<>>

\* && for the second ||
hasChildren_and(element) ==
    element.kind = "root" \/ (element.hasNamedChildren /\ element.indexedChildrenCount > 0)

hasChildren(element) ==
    element.kind = "root" \/ element.hasNamedChildren \/ element.indexedChildrenCount > 0

Range(s) == {s[i] : i \in DOMAIN s}

ProviderNodes == {createVariableElement(v) : v \in VariablesResults}
RangeNodes ==
    UNION {Range(RangeLoop(n, 0)) :
              n \in {m \in ProviderNodes : m.indexedChildrenCount > variablePageSize}}
\* what the tree can hand to hasChildren and getChildren
Elements == {Root} \cup ProviderNodes \cup RangeNodes

\* what a provider yields
Yields ==
    {v \in VariablesResults :
        \/ v.id = 1 /\ v.indexedChildrenCount = 0 /\ ~v.hasNamedChildren
        \/ v.id = 10 /\ v.indexedChildrenCount = MaxCount /\ v.hasNamedChildren}

SeqsUpTo(S, n) == UNION {[1 .. k -> S] : k \in 0 .. n}

\* ------------------------------------------------------------ cancellation

NewSource == [cancelled |-> FALSE, disposed |-> FALSE]

\* line 44 left out: the cancelled source stays in the field
cancel_noNewSource ==
    /\ sources' = [sources EXCEPT ![cancellationTokenSource] =
                       [cancelled |-> TRUE, disposed |-> TRUE]]
    /\ cancellationTokenSource' = cancellationTokenSource

\* line 42 left out: the old source is disposed of and replaced, never cancelled
cancel_noRevoke ==
    /\ sources' = Append([sources EXCEPT ![cancellationTokenSource] =
                              [cancelled |-> FALSE, disposed |-> TRUE]], NewSource)
    /\ cancellationTokenSource' = Len(sources) + 1

cancel ==
    /\ sources' = Append([sources EXCEPT ![cancellationTokenSource] =
                              [cancelled |-> TRUE, disposed |-> TRUE]], NewSource)
    /\ cancellationTokenSource' = Len(sources) + 1

\* the token read once, when the call starts, and passed to every query
QueryToken_atStart(frame) == frame.tokenAtStart

\* this.cancellationTokenSource.token, read when a query is issued
QueryToken(frame) == cancellationTokenSource

\* ------------------------------------------------------------------ frames

IdleFrame ==
    [pc |-> "idle", element |-> NoElement, selectedKernel |-> "none",
     children |-> <<>>, childNodes |-> <<>>, result |-> <<>>,
     queries |-> <<>>, variables |-> <<>>, pulled |-> <<>>,
     tokenAtStart |-> 0, cancelsAtStart |-> 0, error |-> "none", answer |-> "none"]

HasVariableProvider(kernel) == kernel \in {"k1", "k2"}

\* the hasVariableProvider test left out
CanProvide_anyKernel(kernel) == kernel # "none"

\* selectedKernel && selectedKernel.hasVariableProvider, lines 57 and 116
CanProvide(kernel) == kernel # "none" /\ HasVariableProvider(kernel)

\* the selected kernel looked up again for every query
QueryKernel_lookedUpAgain(frame) == selected

\* the kernel whose provideVariables is called: the const selectedKernel of
\* lines 56 and 115, handed to getIndexedChildren at line 68
QueryKernel(frame) == frame.selectedKernel

provideVariables(frame, extHostId, mode, start) ==
    [frame EXCEPT !.queries = Append(@,
        [mode |-> mode, extHostId |-> extHostId, start |-> start,
         token |-> QueryToken(frame),
         kernel |-> QueryKernel(frame),
         selectedAtIssue |-> selected,
         liveAtIssue |-> ~sources[QueryToken(frame)].cancelled,
         cancelsAtIssue |-> cancelCount,
         open |-> TRUE])]

CloseQuery(frame) ==
    [frame EXCEPT !.queries[Len(frame.queries)].open = FALSE]

\* the operands of concat swapped
Concat_swapped(children, childNodes) == childNodes \o children

\* children = children.concat(childNodes), lines 65 and 69
Concat(children, childNodes) == children \o childNodes

\* > for >=: one element too many is pulled before the break
PageFull_late(childNodes) == Len(childNodes) > variablePageSize

\* childNodes.length >= variablePageSize, line 105
PageFull(childNodes) == Len(childNodes) >= variablePageSize

Return(frame, result) == [frame EXCEPT !.pc = "done", !.result = result]

\* parent.indexStart dropped: every indexed query starts at offset 0
IndexStartOrZero_zero(parent) == 0

\* parent.indexStart ?? 0, line 101
IndexStartOrZero(parent) == IF parent.indexStart = Undefined THEN 0 ELSE parent.indexStart

\* the test of line 80 left out: the provider is asked whatever the count
getIndexedChildren_alwaysQuery(frame) ==
    LET parent == frame.element IN
    IF parent.indexedChildrenCount > 0
    THEN [provideVariables(frame, parent.extHostId, "indexed", IndexStartOrZero(parent))
             EXCEPT !.pc = "awaitIndexed"]
    ELSE Return(frame, Concat(frame.children, <<>>))

\* getIndexedChildren up to its first await (or to its return)
getIndexedChildren(frame) ==
    LET parent == frame.element IN
    IF parent.indexedChildrenCount > variablePageSize
    THEN Return(frame, Concat(frame.children, RangeLoop(parent, 0)))
    ELSE IF parent.indexedChildrenCount > 0
         THEN [provideVariables(frame, parent.extHostId, "indexed", IndexStartOrZero(parent))
                  EXCEPT !.pc = "awaitIndexed"]
         ELSE Return(frame, Concat(frame.children, <<>>))

\* getVariables from line 67 on
AfterNamed(frame) ==
    IF frame.element.indexedChildrenCount > 0
    THEN getIndexedChildren(frame)
    ELSE Return(frame, frame.children)

\* the await of lines 62-64 left out: the indexed children are asked for
\* while the named sequence still runs
getVariables_noAwait(frame) ==
    LET parent == frame.element IN
    IF CanProvide(frame.selectedKernel)
    THEN IF parent.hasNamedChildren
         THEN AfterNamed(provideVariables(frame, parent.extHostId, "named", 0))
         ELSE AfterNamed(frame)
    ELSE Return(frame, <<>>)

\* getVariables up to its first await (or to its return)
getVariables(frame) ==
    LET parent == frame.element IN
    IF CanProvide(frame.selectedKernel)
    THEN IF parent.hasNamedChildren
         THEN [provideVariables(frame, parent.extHostId, "named", 0)
                  EXCEPT !.pc = "awaitNamed"]
         ELSE AfterNamed(frame)
    ELSE Return(frame, <<>>)

\* getRootVariables up to its await (or to its return)
getRootVariables(frame) ==
    IF CanProvide(frame.selectedKernel)
    THEN [provideVariables(frame, Undefined, "named", 0) EXCEPT !.pc = "awaitNamed"]
    ELSE Return(frame, <<>>)

\* a try/catch around the awaits that returns what was collected so far
Reject_returnCollected(frame) ==
    Return(frame, Concat(frame.children, frame.childNodes))

\* the awaited sequence throws inside the async function, which has no
\* try/catch: its promise rejects, with no result
Reject(frame) == [frame EXCEPT !.pc = "failed"]

\* no collection is being walked through
NoWalk == [stage |-> "none", collection |-> NoElement, todo |-> <<>>, got |-> <<>>]

\* ----------------------------------------------------------------- actions

Init ==
    /\ sources = <<NewSource>>
    /\ cancellationTokenSource = 1
    /\ cancelCount = 0
    /\ selected \in Kernels
    /\ calls = [c \in Calls |-> IdleFrame]
    /\ walk = NoWalk

\* the host asks whether an element can be expanded
HasChildren(c, element) ==
    /\ calls[c].pc = "idle"
    /\ calls' = [calls EXCEPT ![c] =
                    [IdleFrame EXCEPT !.pc = "asked", !.element = element,
                                      !.answer = hasChildren(element)]]
    /\ UNCHANGED <<cancellationTokenSource, sources, cancelCount, selected>>

\* the host expands an element
GetChildren(c, element) ==
    /\ calls[c].pc = "idle"
    /\ LET frame == [IdleFrame EXCEPT !.element = element,
                                      !.selectedKernel = selected,
                                      !.tokenAtStart = cancellationTokenSource,
                                      !.cancelsAtStart = cancelCount]
       IN calls' = [calls EXCEPT ![c] =
                       IF element.kind = "root" THEN getRootVariables(frame)
                                                ELSE getVariables(frame)]
    /\ UNCHANGED <<cancellationTokenSource, sources, cancelCount, selected>>

\* the named sequence ends: toPromise() resolves with everything it yielded
NamedResolves(c, variables) ==
    /\ calls[c].pc = "awaitNamed"
    /\ LET frame == [CloseQuery(calls[c]) EXCEPT !.variables = variables]
       IN calls' = [calls EXCEPT ![c] =
            IF frame.element.kind = "root"
            THEN Return(frame, MapCreate(variables))
            ELSE AfterNamed([frame EXCEPT !.children = Concat(<<>>, MapCreate(variables))])]
    /\ UNCHANGED <<cancellationTokenSource, sources, cancelCount, selected>>

\* the indexed sequence yields its next variable
IndexedYields(c, variable) ==
    /\ calls[c].pc = "awaitIndexed"
    /\ LET frame == [calls[c] EXCEPT !.pulled = Append(@, variable),
                                     !.childNodes = Append(@, createVariableElement(variable))]
       IN calls' = [calls EXCEPT ![c] =
            IF PageFull(frame.childNodes)
            THEN Return(CloseQuery(frame), Concat(frame.children, frame.childNodes))
            ELSE frame]
    /\ UNCHANGED <<cancellationTokenSource, sources, cancelCount, selected>>

\* the indexed sequence ends
IndexedEnds(c) ==
    /\ calls[c].pc = "awaitIndexed"
    /\ calls' = [calls EXCEPT ![c] =
            Return(CloseQuery(calls[c]), Concat(calls[c].children, calls[c].childNodes))]
    /\ UNCHANGED <<cancellationTokenSource, sources, cancelCount, selected>>

\* the awaited sequence throws: the call rejects
ProviderFails(c) ==
    /\ calls[c].pc \in {"awaitNamed", "awaitIndexed"}
    /\ calls' = [calls EXCEPT ![c] = Reject([CloseQuery(calls[c]) EXCEPT !.error = "error"])]
    /\ UNCHANGED <<cancellationTokenSource, sources, cancelCount, selected>>

\* the provider sees its token cancelled and abandons the query: the call rejects
ProviderAbandons(c) ==
    /\ calls[c].pc \in {"awaitNamed", "awaitIndexed"}
    /\ sources[calls[c].queries[Len(calls[c].queries)].token].cancelled
    /\ calls' = [calls EXCEPT ![c] = Reject([CloseQuery(calls[c]) EXCEPT !.error = "cancelled"])]
    /\ UNCHANGED <<cancellationTokenSource, sources, cancelCount, selected>>

\* the host takes the answer, the result or the rejection
Settle(c) ==
    /\ calls[c].pc \in {"asked", "done", "failed"}
    /\ calls' = [calls EXCEPT ![c] = IdleFrame]
    /\ UNCHANGED <<cancellationTokenSource, sources, cancelCount, selected>>

Cancel ==
    /\ cancelCount < MaxCancels
    /\ cancel
    /\ cancelCount' = cancelCount + 1
    /\ UNCHANGED <<selected, calls>>

\* the user selects another kernel, or the kernel goes away
SelectKernel(k) ==
    /\ k # selected
    /\ selected' = k
    /\ UNCHANGED <<cancellationTokenSource, sources, cancelCount, calls>>

\* One call at a time, on any element, with any provider results and any
\* change of the selected kernel.
Next ==
    \/ \E c \in Sequential, element \in Elements : HasChildren(c, element) /\ UNCHANGED walk
    \/ \E c \in Sequential, element \in Elements : GetChildren(c, element) /\ UNCHANGED walk
    \/ \E c \in Sequential, variables \in SeqsUpTo(Yields, MaxNamed) : NamedResolves(c, variables) /\ UNCHANGED walk
    \/ \E c \in Sequential, variable \in Yields : IndexedYields(c, variable) /\ UNCHANGED walk
    \/ \E c \in Sequential : IndexedEnds(c) /\ UNCHANGED walk
    \/ \E c \in Sequential : ProviderFails(c) /\ UNCHANGED walk
    \/ \E c \in Sequential : ProviderAbandons(c) /\ UNCHANGED walk
    \/ \E c \in Sequential : Settle(c) /\ UNCHANGED walk
    \/ Cancel /\ UNCHANGED walk
    \/ \E k \in Kernels : SelectKernel(k) /\ UNCHANGED walk

Spec == Init /\ [][Next]_vars

\* the elements of the concurrent specification: the root, and the nodes of
\* handle 1 with named children and a collection of one page or of MaxCount
ConcurrentElements ==
    {e \in Elements :
        \/ e.kind = "root"
        \/ /\ e.extHostId = 1
           /\ e.hasNamedChildren
           /\ e.indexedChildrenCount \in {variablePageSize, MaxCount}}

\* the provider results of the concurrent specification
ConcurrentYields == {v \in Yields : v.id = 1}

\* Two calls at a time, interleaved at their awaits with each other and with
\* cancel(); the kernel selected at the start stays selected.
NextConcurrent ==
    \/ \E c \in Calls, element \in ConcurrentElements : HasChildren(c, element) /\ UNCHANGED walk
    \/ \E c \in Calls, element \in ConcurrentElements : GetChildren(c, element) /\ UNCHANGED walk
    \/ \E c \in Calls, variables \in SeqsUpTo(ConcurrentYields, MaxNamed) : NamedResolves(c, variables) /\ UNCHANGED walk
    \/ \E c \in Calls, variable \in ConcurrentYields : IndexedYields(c, variable) /\ UNCHANGED walk
    \/ \E c \in Calls : IndexedEnds(c) /\ UNCHANGED walk
    \/ \E c \in Calls : ProviderFails(c) /\ UNCHANGED walk
    \/ \E c \in Calls : ProviderAbandons(c) /\ UNCHANGED walk
    \/ \E c \in Calls : Settle(c) /\ UNCHANGED walk
    \/ Cancel /\ UNCHANGED walk

SpecConcurrent == Init /\ [][NextConcurrent]_vars

\* ------------------------------------------- walking a paged collection

\* the i-th element (from 0) of the collection walked through, as the
\* provider yields it
ElementAt(i) ==
    [id |-> 100 + i, name |-> <<"x">>, value |-> <<"v">>,
     indexedChildrenCount |-> 0, hasNamedChildren |-> FALSE]

\* the collections a walk may start on
Collections == {n \in ProviderNodes : n.indexedChildrenCount > variablePageSize}

IsRangeNode(node) == node.indexStart # Undefined

\* the index, in the collection, of the element an indexed query yields next:
\* the provider yields from the offset it was asked for
NextIndex(frame) == frame.queries[Len(frame.queries)].start + Len(frame.pulled)

\* the host expands a collection
WalkStart(c, collection) ==
    /\ walk.stage = "none"
    /\ CanProvide(selected)
    /\ GetChildren(c, collection)
    /\ walk' = [stage |-> "collection", collection |-> collection,
                todo |-> <<>>, got |-> <<>>]

\* the named children of the collection arrive
WalkNamed(c, variables) ==
    /\ walk.stage = "collection"
    /\ NamedResolves(c, variables)
    /\ UNCHANGED walk

\* the host takes the range nodes among the children of the collection
WalkTakeRanges(c) ==
    /\ walk.stage = "collection"
    /\ calls[c].pc = "done"
    /\ Settle(c)
    /\ walk' = [walk EXCEPT !.stage = "ranges",
                            !.todo = SelectSeq(calls[c].result, IsRangeNode)]

\* the host expands the next range node
WalkExpand(c) ==
    /\ walk.stage = "ranges"
    /\ walk.todo # <<>>
    /\ GetChildren(c, Head(walk.todo))
    /\ walk' = [walk EXCEPT !.todo = Tail(@)]

\* the provider yields the next element of the collection
HonestYields(c) ==
    /\ walk.stage = "ranges"
    /\ calls[c].pc = "awaitIndexed"
    /\ NextIndex(calls[c]) < walk.collection.indexedChildrenCount
    /\ IndexedYields(c, ElementAt(NextIndex(calls[c])))
    /\ UNCHANGED walk

\* the provider has yielded the last element of the collection
HonestEnds(c) ==
    /\ walk.stage = "ranges"
    /\ calls[c].pc = "awaitIndexed"
    /\ NextIndex(calls[c]) >= walk.collection.indexedChildrenCount
    /\ IndexedEnds(c)
    /\ UNCHANGED walk

\* the host appends the children of the range node to what it has got
WalkCollect(c) ==
    /\ walk.stage = "ranges"
    /\ calls[c].pc = "done"
    /\ Settle(c)
    /\ walk' = [walk EXCEPT !.got = @ \o calls[c].result]

\* the host starts over
WalkAgain(c) ==
    /\ walk.stage = "ranges"
    /\ walk.todo = <<>>
    /\ calls[c].pc = "idle"
    /\ walk' = NoWalk
    /\ UNCHANGED <<cancellationTokenSource, sources, cancelCount, selected, calls>>

\* One host walks through one collection, range node after range node; the
\* provider yields, from the offset asked for, the elements of the collection
\* in order up to its last.
NextWalk ==
    \/ \E c \in Sequential, collection \in Collections : WalkStart(c, collection)
    \/ \E c \in Sequential, variables \in SeqsUpTo(Yields, MaxNamed) : WalkNamed(c, variables)
    \/ \E c \in Sequential : WalkTakeRanges(c)
    \/ \E c \in Sequential : WalkExpand(c)
    \/ \E c \in Sequential : HonestYields(c)
    \/ \E c \in Sequential : HonestEnds(c)
    \/ \E c \in Sequential : WalkCollect(c)
    \/ \E c \in Sequential : WalkAgain(c)

SpecWalk == Init /\ [][NextWalk]_vars

\* ------------------------------------------------------------------ claims

\* a call that found a kernel with a variable provider
Served(frame) == frame.pc \notin {"idle", "asked"} /\ frame.selectedKernel \in {"k1", "k2"}

\* node is the element made of one provider result, field by field
Wraps(node, variable) ==
    /\ node.kind = "variable"
    /\ node.id = ToStr(variable.id)
    /\ node.extHostId = variable.id
    /\ node.name = variable.name
    /\ node.value = variable.value
    /\ node.indexedChildrenCount = variable.indexedChildrenCount
    /\ node.hasNamedChildren = variable.hasNamedChildren
    /\ node.indexStart = Undefined

\* the last query a call issued
LastQuery(frame) == frame.queries[Len(frame.queries)]

\* C1: a node with indexedChildrenCount C > P has, after its named children,
\* exactly ceil(C/P) range nodes; all hold P elements but the last, which
\* holds C mod P (P when P divides C); they start at 0, P, 2P, ... and their
\* blocks [indexStart, indexStart + indexedChildrenCount) tile [0, C).
C1_RangeNodesTile ==
    \A c \in Calls :
        LET frame == calls[c] IN
        (/\ Served(frame)
         /\ frame.pc = "done"
         /\ frame.element.kind = "variable"
         /\ frame.element.indexedChildrenCount > variablePageSize)
        =>
        LET C == frame.element.indexedChildrenCount
            P == variablePageSize
            n == Len(frame.variables)
            k == Len(frame.result) - n
            r(i) == frame.result[n + i]
        IN  /\ k * P >= C /\ (k - 1) * P < C
            /\ \A i \in 1 .. n : frame.result[i].indexStart = Undefined
            /\ \A i \in 1 .. k :
                  /\ r(i).indexStart = (i - 1) * P
                  /\ r(i).indexedChildrenCount =
                        IF i < k \/ C % P = 0 THEN P ELSE C % P
            /\ r(1).indexStart = 0
            /\ \A i \in 1 .. k - 1 :
                  r(i).indexStart + r(i).indexedChildrenCount = r(i + 1).indexStart
            /\ r(k).indexStart + r(k).indexedChildrenCount = C

\* a node with named children and a collection of more than two pages, the
\* last one short, has been expanded
C1_Witness ==
    \E c \in Calls :
        /\ Served(calls[c]) /\ calls[c].pc = "done"
        /\ calls[c].element.kind = "variable"
        /\ calls[c].element.indexedChildrenCount > 2 * variablePageSize
        /\ calls[c].element.indexedChildrenCount % variablePageSize # 0
        /\ Len(calls[c].variables) > 0
        /\ Len(calls[c].result) = Len(calls[c].variables) + 3

\* C2: for a node with 0 < indexedChildrenCount <= P, at every moment of the
\* call the indexed children are at most P, the i-th is the element made of
\* the i-th result pulled from the indexed sequence, no more than P results
\* are ever pulled, and the call returns as soon as the P-th is.
C2_AtMostOnePagePulled ==
    \A c \in Calls :
        LET frame == calls[c] IN
        (/\ Served(frame)
         /\ frame.element.kind = "variable"
         /\ frame.element.indexedChildrenCount > 0
         /\ frame.element.indexedChildrenCount <= variablePageSize)
        =>
        /\ Len(frame.pulled) <= variablePageSize
        /\ Len(frame.childNodes) = Len(frame.pulled)
        /\ \A i \in 1 .. Len(frame.pulled) : Wraps(frame.childNodes[i], frame.pulled[i])
        /\ Len(frame.pulled) = variablePageSize => frame.pc = "done"
        /\ frame.pc = "done" =>
              /\ Len(frame.result) = Len(frame.variables) + Len(frame.pulled)
              /\ \A i \in 1 .. Len(frame.pulled) :
                    Wraps(frame.result[Len(frame.variables) + i], frame.pulled[i])

\* a call returned at the break, after pulling P results, not all the same
C2_Witness ==
    \E c \in Calls :
        /\ Served(calls[c]) /\ calls[c].pc = "done"
        /\ Len(calls[c].pulled) = variablePageSize
        /\ calls[c].pulled[1] # calls[c].pulled[variablePageSize]
        /\ LastQuery(calls[c]).mode = "indexed"

\* C3: a call started after a cancel() has returned issues every query with a
\* token that is not cancelled when the query is issued, and is rejected as
\* cancelled only if cancel() was called again while it ran.
C3_CallAfterCancelUnaffected ==
    \A c \in Calls :
        LET frame == calls[c] IN
        (frame.pc \notin {"idle", "asked"} /\ frame.cancelsAtStart >= 1)
        =>
        /\ \A i \in 1 .. Len(frame.queries) : frame.queries[i].liveAtIssue
        /\ frame.error = "cancelled" => cancelCount > frame.cancelsAtStart

\* a call started after a cancel() issued both its queries and returned, with
\* no cancel() since
C3_Witness ==
    \E c \in Calls :
        /\ calls[c].pc = "done"
        /\ calls[c].cancelsAtStart >= 1
        /\ cancelCount = calls[c].cancelsAtStart
        /\ Len(calls[c].queries) = 2

\* C4: the field always holds a source that exists and is not cancelled; every
\* other source created so far is cancelled; a cancelled source stays
\* cancelled and is never the field's source again.
C4_OneLiveHandle ==
    /\ [](/\ cancellationTokenSource \in DOMAIN sources
          /\ \A i \in DOMAIN sources :
                sources[i].cancelled <=> i # cancellationTokenSource)
    /\ [][\A i \in DOMAIN sources :
            sources[i].cancelled =>
                /\ i \in DOMAIN sources'
                /\ sources'[i].cancelled
                /\ cancellationTokenSource' # i]_vars

\* cancel() has run twice, the second time with a query outstanding
C4_Witness ==
    /\ cancelCount = 2
    /\ Len(sources) = 3
    /\ \E c \in Calls :
          /\ calls[c].pc \in {"awaitNamed", "awaitIndexed"}
          /\ LastQuery(calls[c]).token = 2

\* C5: in every step in which a call issues a query, the query carries the
\* token of the source the field holds in that step, whatever source it held
\* when the call began.
C5_TokenReadAtIssue ==
    [][\A c \in Calls :
          Len(calls'[c].queries) > Len(calls[c].queries) =>
              calls'[c].queries[Len(calls'[c].queries)].token = cancellationTokenSource]_vars

\* cancel() ran while the named query was awaited, and the indexed query of
\* the same call carries the new token
C5_Witness ==
    \E c \in Calls :
        /\ Len(calls[c].queries) = 2
        /\ calls[c].queries[1].mode = "named"
        /\ calls[c].queries[1].token = calls[c].tokenAtStart
        /\ calls[c].queries[2].mode = "indexed"
        /\ calls[c].queries[2].token # calls[c].tokenAtStart
        /\ calls[c].queries[2].token = cancellationTokenSource

\* C6: the token of an outstanding query, of whatever call, is cancelled if
\* and only if a cancel() has returned since the query was issued.
C6_CancelRevokesOutstanding ==
    \A c \in Calls :
        (calls[c].pc \in {"awaitNamed", "awaitIndexed"}) =>
            LET q == LastQuery(calls[c]) IN
            /\ q.open
            /\ sources[q.token].cancelled <=> q.cancelsAtIssue < cancelCount

\* two calls run at the same time: the query of one was outstanding when
\* cancel() ran, the query of the other was issued after it
C6_Witness ==
    \E c1, c2 \in Calls :
        /\ c1 # c2
        /\ calls[c1].pc \in {"awaitNamed", "awaitIndexed"}
        /\ calls[c2].pc \in {"awaitNamed", "awaitIndexed"}
        /\ LastQuery(calls[c1]).cancelsAtIssue < cancelCount
        /\ sources[LastQuery(calls[c1]).token].cancelled
        /\ LastQuery(calls[c2]).cancelsAtIssue = cancelCount
        /\ ~sources[LastQuery(calls[c2]).token].cancelled

\* a call on a node whose named query was issued, then cancel() ran before
\* its indexed query was issued (if it was yet)
MidFetchCancel(frame) ==
    /\ frame.pc \notin {"idle", "asked"}
    /\ frame.element.kind = "variable"
    /\ Len(frame.queries) >= 1
    /\ frame.queries[1].mode = "named"
    /\ \/ frame.pc = "awaitNamed" /\ cancelCount > frame.queries[1].cancelsAtIssue
       \/ /\ Len(frame.queries) = 2
          /\ frame.queries[2].cancelsAtIssue > frame.queries[1].cancelsAtIssue

\* C7, as claimed: a cancel() between the issue of the named query and the
\* issue of the indexed query leaves the token of the named query, already in
\* flight, not cancelled, and cancels the indexed query issued after it.
C7_AsClaimed ==
    \A c \in Calls :
        LET frame == calls[c] IN
        MidFetchCancel(frame) =>
            /\ ~sources[frame.queries[1].token].cancelled
            /\ Len(frame.queries) = 2 => ~frame.queries[2].liveAtIssue

\* C7, amended: a cancel() between the issue of the named query and the issue
\* of the indexed query cancels the token of the named query, already in
\* flight, and the indexed query issued after it carries another token, which
\* is not cancelled when it is issued and stays so until the next cancel().
C7_MidFetchCancelHitsInFlight ==
    \A c \in Calls :
        LET frame == calls[c] IN
        MidFetchCancel(frame) =>
            /\ sources[frame.queries[1].token].cancelled
            /\ Len(frame.queries) = 2 =>
                  /\ frame.queries[2].liveAtIssue
                  /\ frame.queries[2].token # frame.queries[1].token
                  /\ cancelCount = frame.queries[2].cancelsAtIssue =>
                        ~sources[frame.queries[2].token].cancelled

\* cancel() ran while the named query was awaited, and the indexed query has
\* been issued since and is outstanding
C7_Witness ==
    \E c \in Calls :
        /\ MidFetchCancel(calls[c])
        /\ calls[c].pc = "awaitIndexed"
        /\ cancelCount = calls[c].queries[2].cancelsAtIssue

C9_HasChildrenPure ==
    /\ [](\A c \in Calls :
            calls[c].pc = "asked" =>
                /\ calls[c].answer =
                      IF calls[c].element.kind = "root" THEN TRUE
                      ELSE (calls[c].element.hasNamedChildren
                               \/ calls[c].element.indexedChildrenCount > 0)
                /\ calls[c].queries = <<>>)
    /\ [][\A c \in Calls :
            (calls[c].pc = "idle" /\ calls'[c].pc = "asked") =>
                /\ UNCHANGED <<cancellationTokenSource, sources, cancelCount, selected>>
                /\ \A d \in Calls \ {c} : calls'[d] = calls[d]]_vars

\* after a cancel(), hasChildren has answered true for a node that has no
\* named children, only indexed ones
C9_Witness ==
    /\ cancelCount >= 1
    /\ \E c \in Calls :
          /\ calls[c].pc = "asked"
          /\ calls[c].element.kind = "variable"
          /\ ~calls[c].element.hasNamedChildren
          /\ calls[c].element.indexedChildrenCount > 0
          /\ calls[c].answer = TRUE

\* C10: a call that finds no selected kernel, or a selected kernel without a
\* variable provider, has returned the empty sequence, has not been rejected
\* and has issued no query, whatever element it was called on.
C10_NoProviderNoChildren ==
    \A c \in Calls :
        LET frame == calls[c] IN
        (frame.pc \notin {"idle", "asked"} /\ frame.selectedKernel \in {"none", "plain"})
        =>
        /\ frame.pc = "done"
        /\ frame.result = <<>>
        /\ frame.error = "none"
        /\ frame.queries = <<>>

\* a node with named children and more than a page of indexed children was
\* expanded under a kernel without a variable provider
C10_Witness ==
    \E c \in Calls :
        /\ calls[c].pc = "done"
        /\ calls[c].selectedKernel = "plain"
        /\ calls[c].element.kind = "variable"
        /\ calls[c].element.hasNamedChildren
        /\ calls[c].element.indexedChildrenCount > variablePageSize

\* C11, as claimed: no call, on the root or on a node, returns more than P
\* nodes.
C11_AsClaimed ==
    \A c \in Calls :
        calls[c].pc = "done" => Len(calls[c].result) <= variablePageSize

\* C11, amended: of the nodes a call returns, at most P are made of the
\* results of an indexed query; the named children are all that the provider
\* yielded, whatever their number, and a collection of C > P elements is
\* returned as ceil(C/P) range nodes, whatever that number.
C11_AtMostOnePageOfIndexed ==
    \A c \in Calls :
        LET frame == calls[c] IN
        (Served(frame) /\ frame.pc = "done")
        =>
        LET n == Len(frame.variables)
            k == Len(frame.result) - n
            P == variablePageSize
        IN  IF frame.element.kind = "root" THEN k = 0
            ELSE IF frame.element.indexedChildrenCount > P
                 THEN /\ k * P >= frame.element.indexedChildrenCount
                      /\ (k - 1) * P < frame.element.indexedChildrenCount
                      /\ frame.pulled = <<>>
                 ELSE k = Len(frame.pulled) /\ k <= P

\* a call returned more than P nodes: a named child and a full page of
\* indexed children
C11_Witness ==
    \E c \in Calls :
        /\ Served(calls[c]) /\ calls[c].pc = "done"
        /\ Len(calls[c].variables) >= 1
        /\ Len(calls[c].pulled) = variablePageSize
        /\ Len(calls[c].result) > variablePageSize

\* a call on a range node
OnRangeNode(frame) ==
    /\ frame.pc \notin {"idle", "asked"}
    /\ frame.element.kind = "variable"
    /\ frame.element.indexStart # Undefined

\* C12, as claimed: expanding a range node of c elements returns at most c
\* nodes, whatever the provider yields.
C12_AsClaimed ==
    \A c \in Calls :
        (OnRangeNode(calls[c]) /\ calls[c].pc = "done") =>
            Len(calls[c].result) <= calls[c].element.indexedChildrenCount

\* C12, amended: expanding a range node of c elements issues one indexed
\* query at the node's indexStart and returns the elements made of the results
\* pulled, at most P of them; at most c when the provider yields no more than
\* c from that offset.
C12_RangeNodeReturnsAtMostOnePage ==
    \A c \in Calls :
        LET frame == calls[c] IN
        (OnRangeNode(frame) /\ Served(frame) /\ frame.pc = "done")
        =>
        /\ Len(frame.queries) = 1
        /\ frame.queries[1].mode = "indexed"
        /\ frame.queries[1].start = frame.element.indexStart
        /\ frame.queries[1].extHostId = frame.element.extHostId
        /\ Len(frame.result) = Len(frame.pulled)
        /\ Len(frame.result) <= variablePageSize
        /\ \A i \in 1 .. Len(frame.result) : Wraps(frame.result[i], frame.pulled[i])

\* the last, short range node of a collection was expanded at its offset and
\* the provider yielded more elements than the node counts
C12_Witness ==
    \E c \in Calls :
        /\ OnRangeNode(calls[c]) /\ Served(calls[c]) /\ calls[c].pc = "done"
        /\ calls[c].element.indexStart >= 2 * variablePageSize
        /\ calls[c].element.indexedChildrenCount < variablePageSize
        /\ Len(calls[c].result) > calls[c].element.indexedChildrenCount

\* C13: a call has at most one query outstanding, the last it issued, and
\* only while it awaits; when a call has issued both queries, the first is
\* the named one and has ended, and the step that issues the indexed query is
\* the step in which the named query ends.
C13_NamedAwaitedBeforeIndexed ==
    /\ [](\A c \in Calls :
            LET frame == calls[c] IN
            /\ \A i \in 1 .. Len(frame.queries) :
                  frame.queries[i].open <=>
                      (i = Len(frame.queries) /\ frame.pc \in {"awaitNamed", "awaitIndexed"})
            /\ Len(frame.queries) <= 2
            /\ Len(frame.queries) = 2 =>
                  /\ frame.queries[1].mode = "named"
                  /\ frame.queries[2].mode = "indexed"
                  /\ ~frame.queries[1].open)
    /\ [][\A c \in Calls :
            (Len(calls'[c].queries) = 2 /\ Len(calls[c].queries) # 2) =>
                /\ calls[c].pc = "awaitNamed"
                /\ Len(calls[c].queries) = 1
                /\ calls[c].queries[1].open]_vars

\* the indexed query of a call is outstanding, its named query has ended
C13_Witness ==
    \E c \in Calls :
        /\ calls[c].pc = "awaitIndexed"
        /\ Len(calls[c].queries) = 2
        /\ ~calls[c].queries[1].open
        /\ calls[c].queries[2].open
        /\ Len(calls[c].variables) >= 1

\* C14: a call in which a provider sequence threw, or was abandoned after a
\* cancel(), is rejected with that failure and has no result, whatever it had
\* collected; the failed query is the last it issued (after a failed named
\* query no indexed query is issued); and a rejected call does nothing more
\* until the host takes the rejection.
C14_FailureRejectsWholeCall ==
    /\ [](\A c \in Calls :
            LET frame == calls[c] IN
            (frame.pc \notin {"idle", "asked"} /\ frame.error # "none") =>
                /\ frame.pc = "failed"
                /\ frame.result = <<>>
                /\ frame.error \in {"error", "cancelled"}
                /\ \A i \in 1 .. Len(frame.queries) : ~frame.queries[i].open
                /\ (frame.childNodes = <<>> /\ frame.pulled = <<>>)
                      \/ LastQuery(frame).mode = "indexed")
    /\ [][\A c \in Calls :
            calls[c].pc = "failed" => calls'[c] \in {calls[c], IdleFrame}]_vars
    /\ [][\A c \in Calls :
            (calls[c].pc = "awaitNamed" /\ calls'[c].pc = "failed") =>
                calls'[c].queries = [calls[c].queries EXCEPT ![1].open = FALSE]]_vars

\* the indexed query of a call failed after yielding an element, the named
\* children having been collected
C14_Witness ==
    \E c \in Calls :
        /\ calls[c].pc = "failed"
        /\ calls[c].error = "error"
        /\ Len(calls[c].queries) = 2
        /\ Len(calls[c].children) >= 1
        /\ Len(calls[c].childNodes) >= 1
        /\ calls[c].result = <<>>

\* the provider results of a call carry handles that differ from one another
\* and from the handle of the node expanded
DistinctHandles(frame) ==
    LET results == frame.variables \o frame.pulled IN
    /\ \A i, j \in 1 .. Len(results) : i # j => results[i].id # results[j].id
    /\ \A i \in 1 .. Len(results) : results[i].id # frame.element.extHostId

\* C15, as claimed: when the provider assigns distinct handles, the node
\* expanded and the nodes returned have identifiers that differ from one
\* another, and the identifier of a range node is a function of its parent
\* and its offset.
C15_AsClaimed ==
    \A c \in Calls :
        LET frame == calls[c]
            nodes == <<frame.element>> \o frame.result
        IN
        (/\ Served(frame) /\ frame.pc = "done"
         /\ frame.element.kind = "variable"
         /\ DistinctHandles(frame))
        =>
        /\ \A i, j \in 1 .. Len(nodes) : i # j => nodes[i].id # nodes[j].id
        /\ \A i \in 1 .. Len(frame.result) :
              frame.result[i].indexStart # Undefined =>
                  frame.result[i].id = frame.element.id \o ToStr(frame.result[i].indexStart)

\* C16: of the nodes a call returns, those made of a provider result carry no
\* indexStart, and those that carry one are the range nodes of a collection
\* of more than P elements, each counting fewer elements than the collection.
C16_IndexStartIffRangeNode ==
    \A c \in Calls :
        LET frame == calls[c] IN
        (Served(frame) /\ frame.pc = "done")
        =>
        LET n == Len(frame.variables)
            isRange(i) ==
                /\ frame.element.kind = "variable"
                /\ frame.element.indexedChildrenCount > variablePageSize
                /\ i > n
        IN  \A i \in 1 .. Len(frame.result) :
                /\ frame.result[i].indexStart # Undefined <=> isRange(i)
                /\ isRange(i) =>
                      /\ frame.result[i].indexStart >= 0
                      /\ frame.result[i].indexedChildrenCount
                            < frame.element.indexedChildrenCount
                /\ ~isRange(i) =>
                      \E v \in Range(frame.variables \o frame.pulled) :
                          Wraps(frame.result[i], v)

\* a call returned a node made of a provider result, followed by range nodes
C16_Witness ==
    \E c \in Calls :
        /\ Served(calls[c]) /\ calls[c].pc = "done"
        /\ Len(calls[c].variables) >= 1
        /\ Len(calls[c].result) >= Len(calls[c].variables) + 2
        /\ calls[c].result[1].indexStart = Undefined
        /\ calls[c].result[Len(calls[c].result)].indexStart > 0

\* the queries a call on `element` issues if none of them fails: mode, handle
\* and offset, in order
ExpectedQueries(element) ==
    IF element.kind = "root"
    THEN <<[mode |-> "named", extHostId |-> Undefined, start |-> 0]>>
    ELSE (IF element.hasNamedChildren
          THEN <<[mode |-> "named", extHostId |-> element.extHostId, start |-> 0]>>
          ELSE <<>>)
         \o
         (IF element.indexedChildrenCount > 0
             /\ element.indexedChildrenCount <= variablePageSize
          THEN <<[mode |-> "indexed", extHostId |-> element.extHostId,
                  start |-> IF element.indexStart = Undefined THEN 0
                            ELSE element.indexStart]>>
          ELSE <<>>)

\* C17: the queries a call under a kernel with a variable provider has issued
\* are, at every moment, the first ones of the list its element alone
\* determines (one named query at offset 0 on the handle iff hasNamedChildren,
\* then one indexed query on the handle at indexStart, or 0, iff
\* 0 < indexedChildrenCount <= P; for the root one named query at offset 0
\* with no handle), and all of that list once the call has returned.
C17_QueriesDeterminedByElement ==
    \A c \in Calls :
        LET frame == calls[c]
            expected == ExpectedQueries(frame.element)
        IN
        Served(frame) =>
            /\ Len(frame.queries) <= Len(expected)
            /\ \A i \in 1 .. Len(frame.queries) :
                  /\ frame.queries[i].mode = expected[i].mode
                  /\ frame.queries[i].extHostId = expected[i].extHostId
                  /\ frame.queries[i].start = expected[i].start
            /\ frame.pc = "done" => Len(frame.queries) = Len(expected)

\* after a cancel(), a node with named children and more than P indexed ones
\* was expanded and returned, with one named query and no indexed query
C17_Witness ==
    \E c \in Calls :
        /\ Served(calls[c]) /\ calls[c].pc = "done"
        /\ calls[c].cancelsAtStart >= 1
        /\ calls[c].element.kind = "variable"
        /\ calls[c].element.hasNamedChildren
        /\ calls[c].element.indexedChildrenCount > variablePageSize
        /\ Len(calls[c].queries) = 1
        /\ Len(calls[c].result) > Len(calls[c].variables)

\* C18: every range node a call returns counts between 1 and P elements, has
\* no named children, an empty value and the handle of the node expanded; and
\* a call on a range node issues one indexed query and returns no range node.
C18_RangeNodesAreLeaves ==
    \A c \in Calls :
        LET frame == calls[c] IN
        /\ (Served(frame) /\ frame.pc = "done") =>
              \A i \in 1 .. Len(frame.result) :
                  frame.result[i].indexStart # Undefined =>
                      /\ frame.result[i].indexedChildrenCount >= 1
                      /\ frame.result[i].indexedChildrenCount <= variablePageSize
                      /\ ~frame.result[i].hasNamedChildren
                      /\ frame.result[i].value = <<>>
                      /\ frame.result[i].extHostId = frame.element.extHostId
        /\ (Served(frame) /\ OnRangeNode(frame)) =>
              /\ Len(frame.queries) = 1
              /\ frame.queries[1].mode = "indexed"
              /\ \A i \in 1 .. Len(frame.result) : frame.result[i].indexStart = Undefined

\* the range node that starts at P has been expanded and returned an element
C18_Witness ==
    \E c \in Calls :
        /\ Served(calls[c]) /\ OnRangeNode(calls[c]) /\ calls[c].pc = "done"
        /\ calls[c].element.indexStart = variablePageSize
        /\ calls[c].element.indexedChildrenCount = variablePageSize
        /\ Len(calls[c].result) >= 1

\* the walk has expanded every range node of the collection
WalkDone == walk.stage = "ranges" /\ walk.todo = <<>> /\ calls["a"].pc = "idle"

\* C19: with a provider that yields, from the offset asked for, the elements
\* of a collection of C > P elements in order, what the host has got from the
\* range nodes expanded so far, in range order, is elements 0, 1, 2, ... of
\* the collection, each once; after the last range node, elements 0 .. C-1.
C19_PagedWalkEqualsEnumeration ==
    walk.stage = "ranges" =>
        /\ Len(walk.got) <= walk.collection.indexedChildrenCount
        /\ \A i \in 1 .. Len(walk.got) : Wraps(walk.got[i], ElementAt(i - 1))
        /\ WalkDone => Len(walk.got) = walk.collection.indexedChildrenCount

\* a collection of more than two pages, the last one short, has been walked
\* through
C19_Witness ==
    /\ WalkDone
    /\ walk.collection.indexedChildrenCount > 2 * variablePageSize
    /\ walk.collection.indexedChildrenCount % variablePageSize # 0
    /\ Len(walk.got) = walk.collection.indexedChildrenCount

\* C20: every query of a call goes to the kernel that was selected in the
\* step that started the call (the step that issued its first query), a
\* kernel with a variable provider, whatever is selected when the query is
\* issued.
C20_KernelReadOnce ==
    \A c \in Calls :
        LET frame == calls[c] IN
        \A i \in 1 .. Len(frame.queries) :
            /\ frame.queries[i].kernel = frame.queries[1].selectedAtIssue
            /\ frame.queries[i].kernel \in {"k1", "k2"}

\* the indexed query of a call was issued to the kernel of its named query
\* after the selection had changed, in one case to another kernel with a
\* variable provider
C20_Witness ==
    \E c \in Calls :
        /\ Len(calls[c].queries) = 2
        /\ calls[c].queries[2].mode = "indexed"
        /\ calls[c].queries[1].selectedAtIssue = "k1"
        /\ calls[c].queries[2].selectedAtIssue = "k2"
        /\ calls[c].queries[2].kernel = "k1"

====
